---- MODULE Spec2Model ----
(***************************************************************************)
(* The task state of the to-do list (todo_frontend/src/App.js): the tasks  *)
(* array held by the App component, the handlers that update it, the aria- *)
(* live announcements they make and the localStorage record 'tasks'.       *)
(*                                                                         *)
(* A text is a sequence of one-character strings; a message is the         *)
(* sequence of the pieces its template literal concatenates.               *)
(* Each handler runs to completion as one step (state updates of one event *)
(* are applied before the next event is handled), and the step includes    *)
(* the persistence effect that React runs when `tasks` is a new array.     *)
(*                                                                         *)
(* Spec is one session over a storage that works. FilterSpec is the filter *)
(* state and the location fragment, ParseSpec is parseHash on every        *)
(* fragment, and FaultSpec is a chain of sessions over a storage whose     *)
(* writes can throw.                                                       *)
(***************************************************************************)
EXTENDS Integers, Sequences, FiniteSets, TLC

\* ---------------------------------------------------------------- bounds
\* the handlers put no limit on the number of tasks; addTask is explored up
\* to this many
MaxTasks == 3

\* the longest collection explored where storage can fail and the page can
\* be reloaded
MaxFaultTasks == 2

\* the longest collection explored where task operations, filter changes
\* and hashchange events interleave
MaxInterleavedTasks == 2

\* hashchange events are queued without limit; up to this many are explored
MaxPending == 3

\* the longest location fragment parseHash is applied to, in pieces
MaxFragLen == 3

\* ------------------------------------------------------------ value sets
\* the white-space characters String.prototype.trim strips
WhiteSpace == {" "}

\* the values Date.now() and Math.random().toString(36).slice(2, 9) can take:
\* the calls of one run fall into one millisecond, and the random suffix is
\* one of two
Timestamps == {1}
RandomDraws == {"r1", "r2"}

\* the value of an argument that was not passed (undefined)
Undefined == <<"undefined">>

\* what a caller can pass as text: nothing, the empty string, white space
\* only, and texts with white space around, before, after and inside them
RawInputs ==
  { Undefined, << >>, <<" ", " ">>,
    <<"a">>, <<" ", "a", " ">>,
    <<" ", "a", " ", "a">>, <<"a", " ", "a", " ">> }

\* `${Date.now()}-${Math.random().toString(36).slice(2, 9)}`
SessionIds == Timestamps \X RandomDraws

\* ids given out by an earlier session, at an earlier time
EarlierIds == {<<0, "r1">>}

\* the ids a caller can pass
IDs == SessionIds \cup EarlierIds

\* a location fragment is a sequence of pieces: the marks "#" and "/", and
\* words in some spelling
Marks == {"#", "/"}
Words == {"all", "active", "completed", "ACTIVE", "Completed", "bogus"}

RECURSIVE SeqsUpTo(_, _)
SeqsUpTo(S, n) ==
  IF n = 0 THEN {<< >>}
  ELSE LET shorter == SeqsUpTo(S, n - 1)
       IN shorter \cup {Append(q, x) : q \in {y \in shorter : Len(y) = n - 1}, x \in S}

\* every string parseHash can be given
Fragments == SeqsUpTo(Marks \cup Words, MaxFragLen)

\* values of window.location.hash the address bar, a link or the history can
\* produce: empty, or "#" and more
BrowserHashes ==
  { << >>,
    <<"#", "/", "all">>, <<"#", "/", "active">>, <<"#", "/", "completed">>,
    <<"#", "active">>, <<"#", "completed">>, <<"#", "/", "ACTIVE">>,
    <<"#", "/", "Completed">>, <<"#", "/", "bogus">>, <<"#", "bogus">> }

VARIABLES
  tasks,      \* the tasks state of App: a sequence of [id, text, completed]
  stored,     \* the localStorage entry 'tasks'
  mounted,    \* whether App has been mounted (its first render and effects ran)
  lastOp,     \* the handler that ran last
  announced,  \* the calls of announce(msg) made by that handler, in order
  saves,      \* how many times the persistence effect ran in that step
  remainingCount,  \* the memoized count of tasks that are not completed
  completedCount,  \* the memoized count of completed tasks
  filter,     \* the filter state of App: "all", "active" or "completed"
  hash,       \* window.location.hash
  pending,    \* hashchange events fired and not yet delivered
  crashed,    \* a render threw and React removed the component tree
  medium,     \* the storage medium: "ok", or "full" when setItem throws
  loads,      \* how many times this session read the storage entry
  isEditing,  \* the isEditing state of the TaskItem of the task ItemId
  draft,      \* the draft state of that TaskItem
  closure     \* the commitEdit of an edit input that is being removed

vars == <<tasks, stored, mounted, lastOp, announced, saves, remainingCount,
          completedCount, filter, hash, pending, crashed, medium, loads,
          isEditing, draft, closure>>

\* what the task handlers leave alone
appVars == <<mounted, filter, hash, pending, crashed, medium, loads>>

\* the state of the TaskItem that is followed
itemVars == <<isEditing, draft, closure>>

\* ------------------------------------------------------- pure helpers
\* (text || '')
OrEmpty(text) == IF text = Undefined \/ text = << >> THEN << >> ELSE text

RECURSIVE TrimStart(_)
TrimStart(s) ==
  IF s # << >> /\ Head(s) \in WhiteSpace THEN TrimStart(Tail(s)) ELSE s

RECURSIVE TrimEnd(_)
TrimEnd(s) ==
  IF s # << >> /\ s[Len(s)] \in WhiteSpace THEN TrimEnd(SubSeq(s, 1, Len(s) - 1)) ELSE s

\* a trim that strips the leading white space only
Trim_StartOnly(s) == TrimStart(s)

\* String.prototype.trim
Trim(s) == TrimEnd(TrimStart(s))

\* Array.prototype.filter, with the predicate given as the set it accepts
RECURSIVE Filter(_, _)
Filter(s, keep) ==
  IF s = << >> THEN << >>
  ELSE IF Head(s) \in keep THEN <<Head(s)>> \o Filter(Tail(s), keep)
  ELSE Filter(Tail(s), keep)

Range(s) == {s[i] : i \in 1..Len(s)}

\* whether Array.prototype.find(t => t.id === id) finds a task
Has(s, id) == \E i \in 1..Len(s) : s[i].id = id

\* Array.prototype.find(t => t.id === id) when it finds one: the first match
Find(s, id) ==
  s[CHOOSE i \in 1..Len(s) : s[i].id = id /\ \A j \in 1..(i - 1) : s[j].id # id]

\* ------------------------------------------------------------- filter
\* a lower-casing that leaves the text as it is
ToLowerCase_None(h) == h

\* String.prototype.toLowerCase
ToLowerCase(h) ==
  [i \in 1..Len(h) |->
     CASE h[i] = "ACTIVE" -> "active"
       [] h[i] = "Completed" -> "completed"
       [] OTHER -> h[i]]

\* raw.replace(/^#\/?/, '')
StripMarker(raw) ==
  IF raw # << >> /\ raw[1] = "#"
  THEN IF Len(raw) >= 2 /\ raw[2] = "/" THEN SubSeq(raw, 3, Len(raw)) ELSE Tail(raw)
  ELSE raw

\* parseHash, applied to the value of window.location.hash
parseHash(h) ==
  LET raw == ToLowerCase(h)
      cleaned == StripMarker(raw)
  IN IF cleaned = <<"active">> \/ cleaned = <<"completed">> \/ cleaned = <<"all">>
     THEN cleaned[1]
     ELSE "all"

\* `#/${val}`
Target(val) == <<"#", "/", val>>

\* a setter that leaves the location alone
HashAfterSet_Keep(h, val) == h

\* if (window.location.hash !== target) window.location.hash = target
HashAfterSet(h, val) == IF h # Target(val) THEN Target(val) ELSE h

\* ------------------------------------------------------- persistence
\* JSON.stringify(tasks): each task is written as its three fields in order
Stringify(ts) ==
  [kind |-> "json", items |-> [i \in 1..Len(ts) |-> <<ts[i].id, ts[i].text, ts[i].completed>>]]

\* a parse that gives the items in the opposite order
Parse_Reversed(raw) ==
  [i \in 1..Len(raw.items) |->
     LET item == raw.items[Len(raw.items) + 1 - i]
     IN [id |-> item[1], text |-> item[2], completed |-> item[3]]]

\* JSON.parse(raw) of a record written by Stringify
Parse(raw) ==
  [i \in 1..Len(raw.items) |->
     [id |-> raw.items[i][1], text |-> raw.items[i][2], completed |-> raw.items[i][3]]]

\* no entry; text that is not JSON; JSON of a value that is not an array,
\* such as null or {}
Absent == [kind |-> "absent"]
Garbage == [kind |-> "garbage"]
NotArray == [kind |-> "notarray"]

\* a failed write that also loses the record
Persisted_Lost(record, next, ok) == IF ok THEN Stringify(next) ELSE Absent

\* a write that is never made
Persisted_Never(record, next, ok) == record

\* try { localStorage.setItem('tasks', JSON.stringify(tasks)) } catch { }:
\* the entry after the effect ran, setItem throwing when the medium is not ok
Persisted(record, next, ok) == IF ok THEN Stringify(next) ELSE record

\* tasks.filter((t) => !t.completed).length
CountRemaining(ts) == Len(Filter(ts, {t \in Range(ts) : ~t.completed}))

\* tasks.filter((t) => t.completed).length
CountCompleted(ts) == Len(Filter(ts, {t \in Range(ts) : t.completed}))

\* a memo that is computed once and never again
UseMemo_Stale(cached, depsChanged, fresh) == cached

\* useMemo(() => ..., [tasks]): computed again when tasks is another array
UseMemo(cached, depsChanged, fresh) == IF depsChanged THEN fresh ELSE cached

\* the useState initializer of tasks: no entry gives [], a JSON.parse that
\* throws gives []
LoadTasks(raw) ==
  IF raw.kind = "json" THEN Parse(raw) ELSE << >>

\* the initializer returns whatever JSON.parse returned: a value that is not
\* an array has no filter method, and tasks.filter throws in the first render
RenderThrows(raw) == raw.kind = "notarray"

\* records an earlier session can have left behind, and damaged ones
SampleTask(id, text, completed) == [id |-> id, text |-> text, completed |-> completed]
InitialRecords ==
  { Absent, Garbage, NotArray,
    Stringify(<< >>),
    Stringify(<<SampleTask(<<0, "r1">>, <<"a", " ", "a">>, TRUE)>>) }

\* the task whose TaskItem is followed: the one an earlier session left
ItemId == CHOOSE id \in EarlierIds : TRUE

\* no edit input is being removed
NoClosure == [key |-> "none", draft |-> << >>, text |-> << >>]

\* the text prop of the TaskItem, when ts has the task
ItemText(ts) == Find(ts, ItemId).text

\* const [draft, setDraft] = useState(text), and the effect on [text]:
\* setDraft(text) when the text prop is another text than before
SyncedDraft(prev, next) ==
  IF ~Has(next, ItemId) THEN << >>
  ELSE IF ~Has(prev, ItemId) THEN ItemText(next)
  ELSE IF ItemText(prev) # ItemText(next) THEN ItemText(next)
  ELSE draft

\* the TaskItem after App rendered `next` in place of `prev`: it exists
\* while its task does, and `editing` is what its handler left isEditing at
ItemRendered(prev, next, editing) ==
  /\ isEditing' = (editing /\ Has(next, ItemId))
  /\ draft' = SyncedDraft(prev, next)

\* the page before App is constructed, the storage entry being `record` and
\* the location fragment `fragment`
Unmounted(record, fragment) ==
  /\ tasks = << >>
  /\ stored = record
  /\ mounted = FALSE
  /\ lastOp = "none"
  /\ announced = << >>
  /\ saves = 0
  /\ remainingCount = 0
  /\ completedCount = 0
  /\ filter = "all"
  /\ hash = fragment
  /\ pending = 0
  /\ crashed = FALSE
  /\ medium = "ok"
  /\ loads = 0
  /\ isEditing = FALSE
  /\ draft = << >>
  /\ closure = NoClosure

\* the page is opened without a fragment
Init == \E record \in InitialRecords : Unmounted(record, << >>)

\* a dependency compared by content
DepsChanged_ByContent(prev, next) == prev # next

\* the [tasks] dependency of the effect and of the memos, compared with
\* Object.is: every updater builds its result with map, filter or a spread,
\* which is another array than prev whatever its content
DepsChanged(prev, next) == TRUE

\* a render of App after tasks became `next`
Render(next) ==
  /\ remainingCount' = UseMemo(remainingCount, DepsChanged(tasks, next), CountRemaining(next))
  /\ completedCount' = UseMemo(completedCount, DepsChanged(tasks, next), CountCompleted(next))

\* first render: tasks is initialised from storage and the counts are
\* computed, then the effects run: the filter is read from the fragment and
\* tasks is written to storage. An error thrown while rendering is caught
\* by nothing: React removes the whole tree and no effect runs
Mount ==
  /\ ~mounted /\ ~crashed
  /\ loads' = loads + 1
  /\ lastOp' = "mount"
  /\ announced' = << >>
  /\ IF RenderThrows(stored)
     THEN /\ crashed' = TRUE
          /\ saves' = 0
          /\ UNCHANGED <<tasks, stored, mounted, remainingCount, completedCount, filter>>
          /\ UNCHANGED <<isEditing, draft>>
     ELSE /\ mounted' = TRUE
          /\ tasks' = LoadTasks(stored)
          /\ remainingCount' = CountRemaining(tasks')
          /\ completedCount' = CountCompleted(tasks')
          /\ filter' = parseHash(hash)
          /\ stored' = Persisted(stored, tasks', medium = "ok")
          /\ saves' = 1
          /\ ItemRendered(tasks, tasks', FALSE)
          /\ UNCHANGED crashed
  /\ UNCHANGED <<hash, pending, medium, closure>>

\* setTasks(updater) with an updater that returns a new array: React renders
\* again and the effect on [tasks] writes the new array to storage
SetTasks(next) ==
  /\ tasks' = next
  /\ Render(next)
  /\ stored' = IF DepsChanged(tasks, next)
               THEN Persisted(stored, next, medium = "ok")
               ELSE stored
  /\ saves' = IF DepsChanged(tasks, next) THEN 1 ELSE 0

\* ---------------------------------------------------------- handlers
\* announce(msg): the live region is given the message
Announce(msgs) == announced' = msgs

\* const uid = () => `${Date.now()}-${Math.random()...}`: nothing relates the
\* value to the ids in use; the clock and the generator decide it
uid == SessionIds

\* a validation that lets every text through
Rejected_Never(trimmed) == FALSE

\* if (!trimmed) ... return
Rejected(trimmed) == trimmed = << >>

\* an add that appends instead of prepending
AddedTasks_AtTail(prev, id, trimmed) ==
  prev \o <<[id |-> id, text |-> trimmed, completed |-> FALSE]>>

\* an add that keeps the texts unique: a text already present is not added
AddedTasks_Dedup(prev, id, trimmed) ==
  IF \E i \in 1..Len(prev) : prev[i].text = trimmed
  THEN prev
  ELSE <<[id |-> id, text |-> trimmed, completed |-> FALSE]>> \o prev

\* [newTask, ...prev]
AddedTasks(prev, id, trimmed) ==
  <<[id |-> id, text |-> trimmed, completed |-> FALSE]>> \o prev

addTask(text) ==
  /\ mounted
  /\ lastOp' = "add"
  /\ LET trimmed == Trim(OrEmpty(text)) IN
       IF Rejected(trimmed)
       THEN /\ Announce(<< <<"Cannot add an empty task">> >>)
            /\ saves' = 0
            /\ UNCHANGED <<tasks, stored, remainingCount, completedCount>>
            /\ UNCHANGED appVars
            /\ ItemRendered(tasks, tasks', isEditing)
            /\ closure' = closure
       ELSE /\ Len(tasks) < MaxTasks
            /\ \E id \in uid : SetTasks(AddedTasks(tasks, id, trimmed))
            /\ Announce(<< <<"Added task: ">> \o trimmed >>)
            /\ UNCHANGED appVars
            /\ ItemRendered(tasks, tasks', isEditing)
            /\ closure' = closure

Toggled(t, id) == IF t.id = id THEN [t EXCEPT !.completed = ~t.completed] ELSE t

ToggledTasks(prev, id) == [i \in 1..Len(prev) |-> Toggled(prev[i], id)]

toggleTask(id) ==
  /\ mounted
  /\ lastOp' = "toggle"
  /\ SetTasks(ToggledTasks(tasks, id))
  /\ Announce(<< >>)
  /\ UNCHANGED appVars
  /\ ItemRendered(tasks, tasks', isEditing)
  /\ closure' = closure

\* a filter that keeps the task it should drop
DeletedTasks_Inverted(prev, id) == Filter(prev, {t \in Range(prev) : t.id = id})

\* prev.filter((t) => t.id !== id)
DeletedTasks(prev, id) == Filter(prev, {t \in Range(prev) : t.id # id})

\* `Deleted task${task?.text ? `: ${task.text}` : ''}`
DeletedMessage(prev, id) ==
  IF Has(prev, id) /\ Find(prev, id).text # << >>
  THEN <<"Deleted task", ": ">> \o Find(prev, id).text
  ELSE <<"Deleted task">>

deleteTask(id) ==
  /\ mounted
  /\ lastOp' = "delete"
  /\ SetTasks(DeletedTasks(tasks, id))
  /\ Announce(<< DeletedMessage(tasks, id) >>)
  /\ UNCHANGED appVars
  /\ ItemRendered(tasks, tasks', isEditing)
  /\ closure' = closure

Edited(t, id, trimmed) == IF t.id = id THEN [t EXCEPT !.text = trimmed] ELSE t

EditedTasks(prev, id, trimmed) == [i \in 1..Len(prev) |-> Edited(prev[i], id, trimmed)]

\* if (prevTask && prevTask.text !== trimmed) announce(...)
EditAnnouncements(prev, id, trimmed) ==
  IF Has(prev, id) /\ Find(prev, id).text # trimmed
  THEN << <<"Edited task: ">> \o trimmed >>
  ELSE << >>

\* editTask(id, newText), called by a handler of the TaskItem that leaves
\* isEditing at `editing`
EditTaskThen(id, newText, editing) ==
  /\ mounted
  /\ lastOp' = "edit"
  /\ LET trimmed == Trim(OrEmpty(newText)) IN
       IF Rejected(trimmed)
       THEN /\ Announce(<< <<"Edit cancelled. Empty value not saved.">> >>)
            /\ saves' = 0
            /\ UNCHANGED <<tasks, stored, remainingCount, completedCount>>
            /\ UNCHANGED appVars
            /\ ItemRendered(tasks, tasks', editing)
       ELSE /\ SetTasks(EditedTasks(tasks, id, trimmed))
            /\ Announce(EditAnnouncements(tasks, id, trimmed))
            /\ UNCHANGED appVars
            /\ ItemRendered(tasks, tasks', editing)

editTask(id, newText) ==
  /\ EditTaskThen(id, newText, isEditing)
  /\ closure' = closure

Completed(prev) == Filter(prev, {t \in Range(prev) : t.completed})

\* a clearing of what the filter shows: the active view shows no completed
\* task, so nothing is removed
Active_OfView(prev) ==
  IF filter = "active" THEN prev ELSE Filter(prev, {t \in Range(prev) : ~t.completed})

\* prev.filter((t) => !t.completed)
Active(prev) == Filter(prev, {t \in Range(prev) : ~t.completed})

\* a message that is plural for one task too
ClearedMessage_AlwaysPlural(removed) ==
  IF removed > 0
  THEN <<"Cleared ", ToString(removed), " completed task", "s">>
  ELSE <<"No completed tasks to clear">>

\* removed > 0 ? `Cleared ${removed} completed task${removed > 1 ? 's' : ''}`
\*             : 'No completed tasks to clear'
ClearedMessage(removed) ==
  IF removed > 0
  THEN <<"Cleared ", ToString(removed), " completed task">>
         \o (IF removed > 1 THEN <<"s">> ELSE << >>)
  ELSE <<"No completed tasks to clear">>

clearCompleted ==
  /\ mounted
  /\ lastOp' = "clearCompleted"
  /\ SetTasks(Active(tasks))
  /\ Announce(<< ClearedMessage(Len(Completed(tasks))) >>)
  /\ UNCHANGED appVars
  /\ ItemRendered(tasks, tasks', isEditing)
  /\ closure' = closure

\* the values the filter state takes
Filters == {"all", "active", "completed"}

\* a view that shows the completed tasks as active and the active as completed
filteredTasks_Swapped(ts, f) ==
  IF f = "active" THEN Completed(ts)
  ELSE IF f = "completed" THEN Active(ts)
  ELSE ts

\* let list = tasks; if (filter === 'active') ... else if (filter === 'completed') ...
filteredTasks(ts, f) ==
  IF f = "active" THEN Filter(ts, {t \in Range(ts) : ~t.completed})
  ELSE IF f = "completed" THEN Filter(ts, {t \in Range(ts) : t.completed})
  ELSE ts

\* setFilterAndHash(val), the onSetFilter of the filter buttons; writing
\* the fragment fires a hashchange event
setFilterAndHash(val) ==
  /\ mounted
  /\ lastOp' = "setFilter"
  /\ filter' = val
  /\ hash' = HashAfterSet(hash, val)
  /\ pending' = IF hash' # hash THEN pending + 1 ELSE pending
  /\ pending' <= MaxPending
  /\ announced' = << >>
  /\ saves' = 0
  /\ UNCHANGED <<tasks, stored, remainingCount, completedCount, mounted, crashed, medium, loads,
               isEditing, draft, closure>>

\* the fragment is changed from outside App (address bar, link, back and
\* forward); a hashchange event is fired
Navigate(h) ==
  /\ mounted
  /\ h # hash
  /\ pending < MaxPending
  /\ lastOp' = "navigate"
  /\ hash' = h
  /\ pending' = pending + 1
  /\ announced' = << >>
  /\ saves' = 0
  /\ UNCHANGED <<tasks, stored, remainingCount, completedCount, mounted, filter, crashed, medium, loads,
               isEditing, draft, closure>>

\* a listener that keeps the filter it has
NextFilter_Keep(prev, next) == prev

\* prev !== next ? next : prev
NextFilter(prev, next) == IF prev # next THEN next ELSE prev

\* the hashchange listener: setFilter(prev => prev !== next ? next : prev)
onHashChange ==
  /\ mounted
  /\ pending > 0
  /\ lastOp' = "hashchange"
  /\ pending' = pending - 1
  /\ filter' = NextFilter(filter, parseHash(hash))
  /\ announced' = << >>
  /\ saves' = 0
  /\ UNCHANGED <<tasks, stored, remainingCount, completedCount, mounted, hash, crashed, medium, loads,
               isEditing, draft, closure>>

Next ==
  \/ Mount
  \/ \E text \in RawInputs : addTask(text)
  \/ \E id \in IDs : toggleTask(id)
  \/ \E id \in IDs : deleteTask(id)
  \/ \E id \in IDs, newText \in RawInputs : editTask(id, newText)
  \/ clearCompleted

Spec == Init /\ [][Next]_vars

\* storage starts to throw on setItem (quota exceeded, medium unavailable)
Fail ==
  /\ medium = "ok"
  /\ medium' = "full"
  /\ lastOp' = "medium"
  /\ announced' = << >>
  /\ saves' = 0
  /\ UNCHANGED <<tasks, stored, remainingCount, completedCount, mounted, filter, hash, pending, crashed, loads,
               isEditing, draft, closure>>

\* storage accepts writes again
Restore ==
  /\ medium = "full"
  /\ medium' = "ok"
  /\ lastOp' = "medium"
  /\ announced' = << >>
  /\ saves' = 0
  /\ UNCHANGED <<tasks, stored, remainingCount, completedCount, mounted, filter, hash, pending, crashed, loads,
               isEditing, draft, closure>>

\* the page is reloaded: all state of App is gone, the storage entry and the
\* location stay
Reload ==
  /\ mounted \/ crashed
  /\ lastOp' = "reload"
  /\ tasks' = << >>
  /\ mounted' = FALSE
  /\ announced' = << >>
  /\ saves' = 0
  /\ remainingCount' = 0
  /\ completedCount' = 0
  /\ filter' = "all"
  /\ pending' = 0
  /\ crashed' = FALSE
  /\ loads' = 0
  /\ isEditing' = FALSE
  /\ draft' = << >>
  /\ closure' = NoClosure
  /\ UNCHANGED <<stored, hash, medium>>

\* the texts typed where storage can fail
FaultInputs == {<< >>, <<" ", "a", " ">>}

\* sessions over a storage that can fail, one after another
FaultNext ==
  \/ Mount
  \/ \E text \in FaultInputs : addTask(text) /\ Len(tasks') <= MaxFaultTasks
  \/ \E id \in IDs : toggleTask(id)
  \/ \E id \in IDs : deleteTask(id)
  \/ \E id \in IDs, newText \in FaultInputs : editTask(id, newText)
  \/ clearCompleted
  \/ Fail
  \/ Restore
  \/ Reload

FaultSpec == Init /\ [][FaultNext]_vars

\* the filter and the location: the page is opened with any fragment
FilterInit == \E h \in BrowserHashes : Unmounted(Absent, h)

FilterNext ==
  \/ Mount
  \/ \E val \in Filters : setFilterAndHash(val)
  \/ \E h \in BrowserHashes : Navigate(h)
  \/ onHashChange

FilterSpec == FilterInit /\ [][FilterNext]_vars

\* ------------------------------------------------------------ TaskItem
\* the strings the edit input can hold
EditorInputs == RawInputs \ {Undefined}

\* the TaskItem is on the page and no removal of its edit input is under way
ItemShown == mounted /\ Has(tasks, ItemId) /\ closure = NoClosure

\* a step of the TaskItem that calls no handler of App
ItemOnly ==
  /\ announced' = << >>
  /\ saves' = 0
  /\ UNCHANGED <<tasks, stored, remainingCount, completedCount>>
  /\ UNCHANGED appVars

\* enterEdit, from the edit button
enterEdit ==
  /\ ItemShown /\ ~isEditing
  /\ lastOp' = "enterEdit"
  /\ isEditing' = TRUE
  /\ UNCHANGED <<draft, closure>>
  /\ ItemOnly

\* onChange={() => onToggle(id)} of the checkbox of the item
onToggle ==
  /\ ItemShown
  /\ toggleTask(ItemId)

\* onChange={(e) => setDraft(e.target.value)}
onChange(value) ==
  /\ ItemShown /\ isEditing
  /\ lastOp' = "onChange"
  /\ draft' = value
  /\ UNCHANGED <<isEditing, closure>>
  /\ ItemOnly

\* commitEdit as the render made it in which draft was d and text was t
CommitEdit(d, t) ==
  LET trimmed == Trim(OrEmpty(d)) IN
    IF trimmed = << >>
    THEN /\ lastOp' = "commitEdit"
         /\ draft' = t
         /\ isEditing' = FALSE
         /\ ItemOnly
    ELSE IF trimmed # t
    THEN EditTaskThen(ItemId, trimmed, FALSE)
    ELSE /\ lastOp' = "commitEdit"
         /\ isEditing' = FALSE
         /\ draft' = draft
         /\ ItemOnly

cancelEdit ==
  /\ lastOp' = "cancelEdit"
  /\ draft' = ItemText(tasks)
  /\ isEditing' = FALSE
  /\ ItemOnly

\* onEditKeyDown for Enter and Escape. The edit button is not rendered while
\* editing, so editButtonRef.current?.focus() moves no focus: the input
\* still has the focus when the next render removes it, and the onBlur it
\* carries is the commitEdit of the render before this key
onEditKeyDown(key) ==
  /\ ItemShown /\ isEditing
  /\ IF key = "Enter" THEN CommitEdit(draft, ItemText(tasks)) ELSE cancelEdit
  /\ closure' = [key |-> key, draft |-> draft, text |-> ItemText(tasks)]

\* onBlur={commitEdit}, the focus going elsewhere: the input that is then
\* removed does not have the focus
onBlur ==
  /\ ItemShown /\ isEditing
  /\ CommitEdit(draft, ItemText(tasks))
  /\ closure' = NoClosure

\* the focused input is removed in a browser that fires blur on an element
\* it removes: onBlur runs the commitEdit the input carries
RemovedWithBlur ==
  /\ mounted /\ closure # NoClosure
  /\ CommitEdit(closure.draft, closure.text)
  /\ closure' = NoClosure

\* the focused input is removed in a browser that fires no blur then
RemovedSilently ==
  /\ mounted /\ closure # NoClosure
  /\ closure' = NoClosure
  /\ lastOp' = "removed"
  /\ UNCHANGED <<isEditing, draft>>
  /\ ItemOnly

EditorNext ==
  \/ Mount
  \/ enterEdit
  \/ onToggle
  \/ \E value \in EditorInputs : onChange(value)
  \/ \E key \in {"Enter", "Escape"} : onEditKeyDown(key)
  \/ onBlur
  \/ RemovedWithBlur
  \/ RemovedSilently

EditorSpec == Init /\ [][EditorNext]_vars

\* one session in which the task handlers, the filter buttons, changes of
\* the location from outside and the delivery of hashchange events
\* interleave, each running to completion
InterleavedInit ==
  \E record \in InitialRecords, h \in BrowserHashes : Unmounted(record, h)

InterleavedNext ==
  \/ Mount
  \/ \E text \in FaultInputs : addTask(text) /\ Len(tasks') <= MaxInterleavedTasks
  \/ \E id \in IDs : toggleTask(id)
  \/ \E id \in IDs : deleteTask(id)
  \/ \E id \in IDs, newText \in FaultInputs : editTask(id, newText)
  \/ clearCompleted
  \/ \E val \in Filters : setFilterAndHash(val)
  \/ \E h \in BrowserHashes : Navigate(h)
  \/ onHashChange

InterleavedSpec == InterleavedInit /\ [][InterleavedNext]_vars

\* parseHash on every fragment: the first render reads the filter from it
ParseInit == \E h \in Fragments : Unmounted(Absent, h)

ParseSpec == ParseInit /\ [][Mount]_vars

\* ------------------------------------------------------------ claims
\* t is s without its leading and trailing white space, stated without Trim
IsTrimOf(t, s) ==
  /\ t # << >> => (t[1] \notin WhiteSpace /\ t[Len(t)] \notin WhiteSpace)
  /\ \E i \in 0..Len(s) :
       /\ i + Len(t) <= Len(s)
       /\ SubSeq(s, i + 1, i + Len(t)) = t
       /\ \A k \in (1..i) \cup ((i + Len(t) + 1)..Len(s)) : s[k] \in WhiteSpace

\* rawText is empty, white space only, or was not passed
Blank(text) == text = Undefined \/ \A k \in 1..Len(text) : text[k] \in WhiteSpace

\* C1: add(rawText) with a rawText that is not blank inserts exactly one new
\* task at the head, with the trimmed text and completed = false, and every
\* task present before follows it, unchanged and in the same order.
C1_AddInsertsAtHead ==
  [][\A text \in RawInputs :
       (addTask(text) /\ ~Blank(text)) =>
         /\ Len(tasks') = Len(tasks) + 1
         /\ IsTrimOf(tasks'[1].text, text)
         /\ tasks'[1].completed = FALSE
         /\ \A i \in 1..Len(tasks) : tasks'[i + 1] = tasks[i]]_vars

\* add("a") and then add("a a") have run: the collection reads [a a, a, ...]
\* with the older tasks behind the new one
C1_Witness ==
  /\ lastOp = "add"
  /\ announced = << <<"Added task: ", "a", " ", "a">> >>
  /\ Len(tasks) = 3
  /\ tasks[1].text = <<"a", " ", "a">> /\ ~tasks[1].completed
  /\ tasks[2].text = <<"a">>
  /\ tasks[2] # tasks[3]

\* C2: in every reachable state every task's text is non-empty, not white
\* space only, and has no leading or trailing white space.
C2_TextsTrimmedNonEmpty ==
  \A i \in 1..Len(tasks) :
    /\ tasks[i].text # << >>
    /\ \E k \in 1..Len(tasks[i].text) : tasks[i].text[k] \notin WhiteSpace
    /\ tasks[i].text[1] \notin WhiteSpace
    /\ tasks[i].text[Len(tasks[i].text)] \notin WhiteSpace

\* an edit has replaced a text and an add has stored one
C2_Witness ==
  /\ lastOp = "edit"
  /\ announced = << <<"Edited task: ", "a", " ", "a">> >>
  /\ Len(tasks) = MaxTasks
  /\ \E i \in 1..Len(tasks) : tasks[i].text = <<"a", " ", "a">>

\* C3: in every reachable state no two tasks of the collection have the same
\* id (the id add assigns differs from every id in the collection).
C3_IdsUnique ==
  \A i, j \in 1..Len(tasks) : i # j => tasks[i].id # tasks[j].id

\* C3, the part about toggle and edit: they never change a task's id
C3_ToggleEditKeepIds ==
  [][(lastOp' \in {"toggle", "edit"}) =>
       /\ Len(tasks') = Len(tasks)
       /\ \A i \in 1..Len(tasks) : tasks'[i].id = tasks[i].id]_vars

\* C4: add(rawText) and edit(id, rawText) with a blank rawText leave the
\* collection as it was, trigger no save and announce exactly one message:
\* "Cannot add an empty task" for add, "Edit cancelled. Empty value not
\* saved." for edit.
C4_BlankRejected ==
  [][\A text \in RawInputs : Blank(text) =>
       /\ addTask(text) =>
            /\ tasks' = tasks /\ stored' = stored /\ saves' = 0
            /\ announced' = << <<"Cannot add an empty task">> >>
       /\ \A id \in IDs : editTask(id, text) =>
            /\ tasks' = tasks /\ stored' = stored /\ saves' = 0
            /\ announced' = << <<"Edit cancelled. Empty value not saved.">> >>]_vars

\* a blank add was rejected on a collection that holds tasks
C4_Witness ==
  /\ lastOp = "add"
  /\ announced = << <<"Cannot add an empty task">> >>
  /\ saves = 0
  /\ Len(tasks) = 2

\* C5 as stated: toggle, delete and edit with an id that matches no task
\* leave the collection unchanged and announce nothing.
C5_UnknownIdSilent ==
  [][\A id \in IDs : ~Has(tasks, id) =>
       ((toggleTask(id) \/ deleteTask(id) \/ \E text \in RawInputs : editTask(id, text))
          => tasks' = tasks /\ announced' = << >>)]_vars

\* C5 as amended: toggle, delete and edit with an id that matches no task
\* leave the collection (content and order) unchanged; toggle announces
\* nothing, edit announces nothing unless its text is blank (then the
\* rejection message), and delete announces "Deleted task" with no suffix.
C5_UnknownIdKeepsCollection ==
  [][\A id \in IDs : ~Has(tasks, id) =>
       /\ toggleTask(id) => tasks' = tasks /\ announced' = << >>
       /\ deleteTask(id) => tasks' = tasks /\ announced' = << <<"Deleted task">> >>
       /\ \A text \in RawInputs : editTask(id, text) =>
            /\ tasks' = tasks
            /\ announced' = IF Blank(text)
                             THEN << <<"Edit cancelled. Empty value not saved.">> >>
                             ELSE << >>]_vars

\* a delete ran with an id that no task of a non-empty collection has
C5_Witness ==
  /\ lastOp = "delete"
  /\ announced = << <<"Deleted task">> >>
  /\ Len(tasks) = 2
  /\ tasks[1].id # tasks[2].id

\* C6: edit(id, rawText) where the trimmed rawText equals the current text of
\* the task with that id changes nothing and announces nothing.
C6_SameTextEditIsNoOp ==
  [][\A id \in IDs, text \in RawInputs :
       (/\ editTask(id, text)
        /\ \E i \in 1..Len(tasks) : tasks[i].id = id /\ IsTrimOf(tasks[i].text, text))
       => tasks' = tasks /\ announced' = << >>]_vars

\* C7: edit(id, rawText) on an existing task whose text differs from the
\* non-blank trimmed rawText replaces only that task's text by the trimmed
\* value (id, completed and position kept, every other task unchanged) and
\* announces exactly "Edited task: " followed by the trimmed text.
C7_EditReplacesOneText ==
  [][\A id \in IDs, text \in RawInputs :
       (/\ editTask(id, text)
        /\ ~Blank(text)
        /\ \E i \in 1..Len(tasks) : tasks[i].id = id /\ ~IsTrimOf(tasks[i].text, text))
       => \E i \in 1..Len(tasks) :
            /\ tasks[i].id = id
            /\ Len(tasks') = Len(tasks)
            /\ IsTrimOf(tasks'[i].text, text)
            /\ tasks' = [tasks EXCEPT ![i].text = tasks'[i].text]
            /\ announced' = << <<"Edited task: ">> \o tasks'[i].text >>]_vars

\* C8: toggle(id) on an existing task flips only that task's completed flag,
\* every other task and the order unchanged; toggling twice gives back the
\* collection.
C8_ToggleFlipsOne ==
  [][\A id \in IDs :
       (toggleTask(id) /\ Has(tasks, id))
       => /\ \E i \in 1..Len(tasks) :
              /\ tasks[i].id = id
              /\ tasks' = [tasks EXCEPT ![i].completed = ~tasks[i].completed]
          /\ ToggledTasks(tasks', id) = tasks]_vars

\* s without its i-th element
Without(s, i) == SubSeq(s, 1, i - 1) \o SubSeq(s, i + 1, Len(s))

\* C9: delete(id) on an existing task removes exactly that one task, the
\* others unchanged and in the same order, and announces "Deleted task: "
\* followed by the removed task's text.
C9_DeleteRemovesOne ==
  [][\A id \in IDs :
       (deleteTask(id) /\ Has(tasks, id))
       => \E i \in 1..Len(tasks) :
            /\ tasks[i].id = id
            /\ tasks' = Without(tasks, i)
            /\ announced' = << <<"Deleted task", ": ">> \o tasks[i].text >>]_vars

\* the positions of the tasks that are not completed
ActiveIndexes(s) == {i \in 1..Len(s) : ~s[i].completed}

\* t holds exactly the elements of s at the positions in idx, in s's order
IsSelection(t, s, idx) ==
  /\ Len(t) = Cardinality(idx)
  /\ \E f \in [1..Len(t) -> 1..Len(s)] :
       /\ \A k \in 1..Len(t) : f[k] \in idx /\ t[k] = s[f[k]]
       /\ \A k, l \in 1..Len(t) : k < l => f[k] < f[l]

\* C10: clearCompleted leaves exactly the tasks that are not completed, in
\* their order, and announces by the number N it removed: "Cleared 1
\* completed task", "Cleared N completed tasks" for N > 1, and "No completed
\* tasks to clear", the collection unchanged, for N = 0.
C10_ClearCompleted ==
  [][clearCompleted =>
       LET N == Len(tasks) - Cardinality(ActiveIndexes(tasks)) IN
       /\ IsSelection(tasks', tasks, ActiveIndexes(tasks))
       /\ N = 0 => tasks' = tasks /\ announced' = << <<"No completed tasks to clear">> >>
       /\ N = 1 => announced' = << <<"Cleared ", "1", " completed task">> >>
       /\ N > 1 => announced' = << <<"Cleared ", ToString(N), " completed task", "s">> >>]_vars

\* two of three tasks were cleared and the third is left
C10_Witness ==
  /\ lastOp = "clearCompleted"
  /\ announced = << <<"Cleared ", "2", " completed task", "s">> >>
  /\ Len(tasks) = 1

\* ------------------------------------------- the claims that rest on C3
\* Where the ids of the collection are distinct, C6 to C9 hold as stated.
IdsDistinct(s) == \A i, j \in 1..Len(s) : i # j => s[i].id # s[j].id

C6_WhereIdsDistinct ==
  [][\A id \in IDs, text \in RawInputs :
       (/\ IdsDistinct(tasks)
        /\ editTask(id, text)
        /\ \E i \in 1..Len(tasks) : tasks[i].id = id /\ IsTrimOf(tasks[i].text, text))
       => tasks' = tasks /\ announced' = << >>]_vars

C7_WhereIdsDistinct ==
  [][\A id \in IDs, text \in RawInputs :
       (/\ IdsDistinct(tasks)
        /\ editTask(id, text)
        /\ ~Blank(text)
        /\ \E i \in 1..Len(tasks) : tasks[i].id = id /\ ~IsTrimOf(tasks[i].text, text))
       => \E i \in 1..Len(tasks) :
            /\ tasks[i].id = id
            /\ Len(tasks') = Len(tasks)
            /\ IsTrimOf(tasks'[i].text, text)
            /\ tasks' = [tasks EXCEPT ![i].text = tasks'[i].text]
            /\ announced' = << <<"Edited task: ">> \o tasks'[i].text >>]_vars

C8_WhereIdsDistinct ==
  [][\A id \in IDs :
       (IdsDistinct(tasks) /\ toggleTask(id) /\ Has(tasks, id))
       => \E i \in 1..Len(tasks) :
            /\ tasks[i].id = id
            /\ tasks' = [tasks EXCEPT ![i].completed = ~tasks[i].completed]]_vars

C9_WhereIdsDistinct ==
  [][\A id \in IDs :
       (IdsDistinct(tasks) /\ deleteTask(id) /\ Has(tasks, id))
       => \E i \in 1..Len(tasks) :
            /\ tasks[i].id = id
            /\ tasks' = Without(tasks, i)
            /\ announced' = << <<"Deleted task", ": ">> \o tasks[i].text >>]_vars

\* ------------------------------------------------------------ counts
\* C11: in every reachable state remainingCount is the number of tasks of
\* the current collection that are not completed and completedCount the
\* number that are, so the two sum to the length of the collection.
C11_CountsAreCurrent ==
  /\ remainingCount = Cardinality({i \in 1..Len(tasks) : ~tasks[i].completed})
  /\ completedCount = Cardinality({i \in 1..Len(tasks) : tasks[i].completed})
  /\ remainingCount + completedCount = Len(tasks)

\* a toggle changed the counts of a collection of three
C11_Witness ==
  /\ lastOp = "toggle"
  /\ Len(tasks) = 3
  /\ remainingCount = 1
  /\ completedCount = 2

\* ------------------------------------------------------- derived view
\* the positions of the completed tasks
CompletedIndexes(s) == {i \in 1..Len(s) : s[i].completed}

\* C12: the view for filter all is the collection itself; for active it is
\* exactly the tasks that are not completed and for completed exactly those
\* that are, each in the order of the collection; the active and the
\* completed view have no task in common and together hold every task.
C12_DerivedViews ==
  LET all == filteredTasks(tasks, "all")
      active == filteredTasks(tasks, "active")
      done == filteredTasks(tasks, "completed")
  IN /\ all = tasks
     /\ IsSelection(active, tasks, ActiveIndexes(tasks))
     /\ IsSelection(done, tasks, CompletedIndexes(tasks))
     /\ \A i \in 1..Len(active), j \in 1..Len(done) : active[i] # done[j]
     /\ Range(active) \cup Range(done) = Range(tasks)
     /\ Len(active) + Len(done) = Len(tasks)

\* a collection of three with an active task on either side of a completed one
C12_Witness ==
  /\ mounted
  /\ Len(tasks) = 3
  /\ ~tasks[1].completed /\ tasks[2].completed /\ ~tasks[3].completed
  /\ tasks[1] # tasks[3]
  /\ filteredTasks(tasks, "active") = <<tasks[1], tasks[3]>>

\* ------------------------------------------------------------- filter
\* the spellings of each filter value
Spellings ==
  [all |-> {"all"}, active |-> {"active", "ACTIVE"}, completed |-> {"completed", "Completed"}]

\* fragment h is the marker "#/" or "#", or none, followed by a spelling of v
Encodes(h, v) ==
  \E W \in Spellings[v] : h = <<W>> \/ h = <<"#", W>> \/ h = <<"#", "/", W>>

\* the filter value a fragment stands for, stated without parseHash
Decoded(h) ==
  IF Encodes(h, "active") THEN "active"
  ELSE IF Encodes(h, "completed") THEN "completed"
  ELSE "all"

\* C13: parse never fails and always gives all, active or completed: the
\* word the fragment is after its leading marker is removed and it is
\* lower-cased, and all for every other fragment.
C13_ParseTotal ==
  mounted => filter \in Filters /\ filter = Decoded(hash)

\* "#/Completed" was parsed to completed
C13_Witness ==
  /\ mounted
  /\ hash = <<"#", "/", "Completed">>
  /\ filter = "completed"

\* C14: right after setFilter(v) and right after onExternalChange the filter
\* state is what the location fragment parses to.
C14_FilterMatchesLocation ==
  lastOp \in {"setFilter", "hashchange"} => filter = Decoded(hash)

\* setFilter(active) wrote the fragment and its hashchange event was then
\* delivered, the location unchanged: the filter is still active
C14_Witness ==
  /\ lastOp = "hashchange"
  /\ pending = 0
  /\ hash = <<"#", "/", "active">>
  /\ filter = "active"

\* C15: setFilter(value) leaves the fragment unchanged when it already
\* parses to value, and makes it "#/" followed by value otherwise.
C15_WritesOnlyWhenNotEncoded ==
  [][\A val \in Filters :
       setFilterAndHash(val) =>
         hash' = IF Decoded(hash) = val THEN hash ELSE <<"#", "/", val>>]_vars


\* ------------------------------------------------------- persistence
\* C16: load at startup fails soft: from a missing, unparseable or
\* otherwise invalid record the initial collection is empty and no fault is
\* raised; only a valid record gives a non-empty initial collection.
C16_LoadFailsSoft ==
  [][Mount =>
       /\ stored.kind # "json" => (mounted' /\ ~crashed' /\ tasks' = << >>)
       /\ tasks' # << >> => stored.kind = "json"]_vars

\* where the record is no entry, unparseable text or a saved collection,
\* load does fail soft
C16_WhereArrayOrUnparseable ==
  [][Mount /\ stored.kind # "notarray" =>
       /\ mounted' /\ ~crashed'
       /\ stored.kind # "json" => tasks' = << >>]_vars


\* C17: when a save fails because storage throws, the fault is swallowed:
\* the collection in memory is the result of the operation, the stored
\* record keeps its previous value, nothing fails and App stays in service.
C17_FailedSaveSwallowed ==
  [][medium = "full" =>
       /\ saves' = 1 => (stored' = stored /\ mounted' /\ ~crashed')
       /\ \A text \in FaultInputs :
            (addTask(text) /\ ~Blank(text)) =>
              /\ Len(tasks') = Len(tasks) + 1
              /\ IsTrimOf(tasks'[1].text, text)
              /\ ~tasks'[1].completed
              /\ Tail(tasks') = tasks
       /\ \A id \in IDs :
            toggleTask(id) =>
              /\ Len(tasks') = Len(tasks)
              /\ \A i \in 1..Len(tasks) :
                   /\ tasks'[i].id = tasks[i].id /\ tasks'[i].text = tasks[i].text
                   /\ tasks'[i].completed = (tasks[i].completed # (tasks[i].id = id))
       /\ clearCompleted => IsSelection(tasks', tasks, ActiveIndexes(tasks))]_vars

\* two tasks were added while no save had ever succeeded: the record is
\* still missing and the storage still throws
C17_Witness ==
  /\ mounted /\ ~crashed
  /\ medium = "full"
  /\ lastOp = "add" /\ saves = 1
  /\ Len(tasks) = 2
  /\ stored = Absent

\* C18: every operation that changes the collection is followed at once by
\* a save of the whole new collection, and whenever that save succeeds the
\* stored record is the collection in memory, whatever failed before.
C18_ChangeIsSaved ==
  [][/\ (mounted /\ mounted' /\ tasks' # tasks) => saves' = 1
     /\ (saves' = 1 /\ medium = "ok") => stored' = Stringify(tasks')]_vars

\* a toggle was saved with success: the record holds both tasks, one of them
\* completed
C18_Witness ==
  /\ lastOp = "toggle" /\ saves = 1
  /\ medium = "ok"
  /\ Len(tasks) = 2
  /\ tasks[1].completed /\ ~tasks[2].completed
  /\ stored = Stringify(tasks)

\* C19: load runs once, at startup, and save runs only after an operation
\* that changed the collection: not at startup, not after an operation that
\* leaves the collection as it was.
C19_SaveOnlyAfterChange ==
  [][/\ loads' <= 1
     /\ saves' = 1 => (mounted /\ tasks' # tasks)]_vars

\* C19, amended: load runs once per session, at startup. Save runs at
\* startup, right after the load, and after every add, toggle, delete, edit
\* and clearCompleted that reaches the collection, whether or not its
\* content changed; only a blank add or a blank edit saves nothing.
C19_SaveAfterEverySetTasks ==
  [][/\ loads' <= 1
     /\ Mount => (loads' = 1 /\ saves' = IF crashed' THEN 0 ELSE 1)
     /\ \A text \in RawInputs :
          addTask(text) => saves' = IF Blank(text) THEN 0 ELSE 1
     /\ \A id \in IDs :
          /\ toggleTask(id) => saves' = 1
          /\ deleteTask(id) => saves' = 1
          /\ \A newText \in RawInputs :
               editTask(id, newText) => saves' = IF Blank(newText) THEN 0 ELSE 1
     /\ clearCompleted => saves' = 1
     /\ saves' = 0 => stored' = stored]_vars

\* clearCompleted found nothing completed in a collection of two, and saved
C19_Witness ==
  /\ lastOp = "clearCompleted"
  /\ announced = << <<"No completed tasks to clear">> >>
  /\ Len(tasks) = 2
  /\ saves = 1

\* C20: a load of the record save wrote gives the same tasks in the same
\* order, and to save the loaded collection leaves the record as it is: a
\* session started after a save that succeeded starts from the collection
\* of that save.
C20_RoundTrip ==
  [][/\ (saves' = 1 /\ medium = "ok") =>
          (LoadTasks(stored') = tasks' /\ Stringify(LoadTasks(stored')) = stored')
     /\ (Mount /\ stored.kind = "json") =>
          /\ Stringify(tasks') = stored
          /\ medium = "ok" => stored' = stored]_vars

\* a session has started from a record of two different tasks that an
\* earlier session saved
C20_Witness ==
  /\ lastOp = "mount" /\ mounted
  /\ Len(tasks) = 2
  /\ tasks[1] # tasks[2]
  /\ tasks[1].id \in SessionIds
  /\ stored = Stringify(tasks)


\* ---------------------------------------------------------- the texts
\* C21: after every sequence of add, toggle, edit and delete no two tasks
\* of the collection carry the same text, and every text is non-empty and
\* trimmed.
C21_TextsUnique ==
  /\ \A i, j \in 1..Len(tasks) : i # j => tasks[i].text # tasks[j].text
  /\ \A i \in 1..Len(tasks) :
       /\ tasks[i].text # << >>
       /\ tasks[i].text[1] \notin WhiteSpace
       /\ tasks[i].text[Len(tasks[i].text)] \notin WhiteSpace

\* C21, amended: every text is non-empty and trimmed, and texts can repeat:
\* add compares its text with no task, so the add of a text that a task
\* already carries inserts one more task with that text, and edit gives a
\* task the text that another task carries just the same.
C21_TextsMayRepeat ==
  [][/\ \A i \in 1..Len(tasks') :
          /\ tasks'[i].text # << >>
          /\ tasks'[i].text[1] \notin WhiteSpace
          /\ tasks'[i].text[Len(tasks'[i].text)] \notin WhiteSpace
     /\ lastOp' = "add" =>
          \A text \in RawInputs, i \in 1..Len(tasks) :
            (IsTrimOf(tasks[i].text, text) /\ addTask(text)) =>
              /\ Len(tasks') = Len(tasks) + 1
              /\ tasks'[1].text = tasks[i].text
              /\ tasks'[i + 1] = tasks[i]
     /\ lastOp' = "edit" =>
          \A i, j \in 1..Len(tasks) :
            (tasks[j].id # tasks[i].id /\ tasks[j].text # tasks[i].text) =>
              \A newText \in RawInputs :
                (IsTrimOf(tasks[j].text, newText) /\ editTask(tasks[i].id, newText)) =>
                  /\ tasks'[i].text = tasks[j].text
                  /\ tasks'[j] = tasks[j]]_vars

\* two tasks with ids of their own carry the same text, the second one just
\* added
C21_Witness ==
  /\ lastOp = "add"
  /\ Len(tasks) = 2
  /\ tasks[1].id # tasks[2].id
  /\ tasks[1].text = tasks[2].text


\* ------------------------------------------- the tasks and the filter
\* C22: add, toggle, edit, delete and clearCompleted leave the filter
\* state and the location fragment as they are and act on the whole
\* collection whatever the filter is; setFilter and onExternalChange leave
\* the collection and the stored record as they are.
C22_OwnStateOnly ==
  [][/\ ( \/ \E text \in FaultInputs : addTask(text)
          \/ \E id \in IDs : toggleTask(id) \/ deleteTask(id)
          \/ \E id \in IDs, newText \in FaultInputs : editTask(id, newText)
          \/ clearCompleted )
        => (filter' = filter /\ hash' = hash /\ pending' = pending)
     /\ clearCompleted => IsSelection(tasks', tasks, ActiveIndexes(tasks))
     /\ \A id \in IDs :
          toggleTask(id) =>
            /\ Len(tasks') = Len(tasks)
            /\ \A i \in 1..Len(tasks) :
                 tasks'[i].completed = (tasks[i].completed # (tasks[i].id = id))
     /\ ((\E val \in Filters : setFilterAndHash(val)) \/ onHashChange)
        => (tasks' = tasks /\ stored' = stored /\ saves' = 0
            /\ remainingCount' = remainingCount /\ completedCount' = completedCount)]_vars

\* clearCompleted has removed a completed task that the active view did not
\* show, and the filter and the fragment are still those of the active view
C22_Witness ==
  /\ lastOp = "clearCompleted"
  /\ announced = << <<"Cleared ", "1", " completed task">> >>
  /\ filter = "active"
  /\ hash = <<"#", "/", "active">>
  /\ Len(tasks) = 1

\* C23: however task operations, setFilter calls, changes of the fragment
\* from outside and the deliveries of hashchange events interleave, once no
\* event is pending the filter state is what the fragment parses to; an
\* event that is delivered late never undoes a later setFilter.
C23_SettlesOnLocation ==
  [][/\ (mounted' /\ pending' = 0) => filter' = Decoded(hash')
     /\ onHashChange => (filter' = Decoded(hash) /\ hash' = hash)
     /\ (onHashChange /\ lastOp = "setFilter") => filter' = filter]_vars

\* the last of several queued events, among them the one of setFilter's own
\* write, has been delivered while the completed view is chosen
C23_Witness ==
  /\ lastOp = "hashchange"
  /\ pending = 0
  /\ filter = "completed"
  /\ hash = <<"#", "/", "completed">>
  /\ Len(tasks) = 2


C24_WhatTheEditorKeeps ==
  [][/\ lastOp' = "edit" =>
          /\ ItemText(tasks') # << >>
          /\ ItemText(tasks') # ItemText(tasks) \/ RemovedWithBlur
          /\ \/ IsTrimOf(ItemText(tasks'), draft)
             \/ IsTrimOf(ItemText(tasks'), closure.draft)
     /\ ( \/ onEditKeyDown("Escape")
          \/ /\ onEditKeyDown("Enter") \/ onBlur
             /\ Blank(draft) \/ IsTrimOf(ItemText(tasks), draft) )
        => /\ lastOp' # "edit"
           /\ tasks' = tasks
           /\ ~isEditing'
           /\ Blank(draft) \/ onEditKeyDown("Escape") => draft' = ItemText(tasks)
           /\ IsTrimOf(ItemText(tasks), draft')]_vars

\* Escape calls no onEdit where the browser fires no blur on the input it
\* removes
C24_EscapeWhereRemovalIsSilent ==
  [][(closure.key = "Escape" /\ RemovedSilently) => (lastOp' # "edit" /\ tasks' = tasks)]_vars

\* Escape is followed by a call of onEdit where the browser fires blur on
\* the input it removes
C24_EscapeNeverEdits ==
  [][closure.key = "Escape" => (lastOp' # "edit" /\ tasks' = tasks)]_vars

====
